---- MODULE Spec2Model ----
(***************************************************************************)
(* Model of the agent orchestration core (AgentOrchestrator): the agent    *)
(* registry, the run-context store, the three scheduling modes             *)
(* (orchestrateLLM, orchestrateCode, executeParallel) and the evaluator.   *)
(* A JavaScript turn (the code between two awaits) is one atomic action;   *)
(* every await of an agent call is a suspension point at which any other   *)
(* turn may run.                                                           *)
(***************************************************************************)
EXTENDS Integers, Naturals, Sequences, FiniteSets, TLC

\* ---------------------------------------------------------------- bounds
MaxCalls    == 2   \* orchestrate calls started on one orchestrator
MaxRegOps   == 1   \* registerAgent/unregisterAgent calls after construction
MaxRegistry == 3   \* registry calls when the registry is exercised on its own
MaxPriority == 2   \* plan priorities are 1..MaxPriority
MaxFlow     == 2   \* longest plan list handed to orchestrateCode
MaxPlans    == 3   \* longest plan list handed to executeParallel
MaxContexts == 2   \* createContext calls
MaxFaults   == 1   \* agent calls that reject or report success=false
MaxResults  == 2   \* longest result list handed to evaluateExecution
MaxMetric   == 1   \* largest duration / resource-usage figure of a result
MaxEvals    == 2   \* evaluateExecution calls
MaxMutations == 2  \* caller-side writes to data objects
MaxWrites   == 2   \* writes to the shared context by running executes
MaxLimit    == 2   \* largest historyLimit a caller configures
MaxPrompts  == 1   \* prompt ids a caller names are 0..MaxPrompts
MaxAgentOps == 4   \* calls made on a PromptEngineeringAgent used on its own
MaxToolCalls == 3  \* callTool calls on a PromptEngineeringServer
MaxSwitches == 3   \* connect and cleanup calls on a PromptEngineeringServer

\* ------------------------------------------------------- the environment
\* Agent objects the callers own, and the id each one carries (AgentC
\* carries the same id as AgentA).
AgentObjs == {"AgentA", "AgentB", "AgentC"}
IdOf == [o \in AgentObjs |-> IF o = "AgentB" THEN "y" ELSE "x"]
AgentIds == {"x", "y"}
MissingId == "z"          \* an id no agent object carries
Priorities == 1..MaxPriority
\* The dependencies each agent declares on the plans it produces: AgentA and
\* AgentB name each other (a cycle), AgentC names an id nobody carries.
DepsOf == [o \in AgentObjs |->
             IF o = "AgentA" THEN {"y"} ELSE IF o = "AgentB" THEN {"x"} ELSE {"w"}]
Calls == 1..MaxCalls

Undefined == "undefined"
EmptySlot == [key |-> "", value |-> ""]

VARIABLES
  agents,          \* Map<string, IAgent>: the entry list in insertion order
  executionQueue,  \* ActionPlan[]
  events,          \* the notifications emitted so far, with their counts
  calls,           \* the activation record of every orchestrate call
  regOps,          \* number of registry calls made
  regLog,          \* the registry calls made, in order
  faults,          \* number of agent calls that rejected or reported failure
  par,             \* the activation record of the executeParallel call
  evalInput,       \* the list handed to evaluateExecution
  evaluation,      \* the EvaluationResults returned so far, in call order
  heap,            \* the caller's data objects, by reference
  contextStore,    \* Map<string, RunContext>
  ctxLog,          \* data of each context as it was when created
  mutations,       \* number of caller-side writes made
  server           \* the PromptEngineeringServer and the agent it wraps

vars == <<agents, executionQueue, events, calls, regOps, regLog, faults,
          par, evalInput, evaluation, heap, contextStore, ctxLog, mutations,
          server>>

\* ------------------------------------------------------------ Map<K, V>
\* A Map keeps its entries in insertion order; delete empties the slot,
\* so that a live iterator keeps its position.
RECURSIVE MapIndex(_, _, _)
MapIndex(m, k, i) ==
  IF i > Len(m) THEN 0
  ELSE IF m[i].key = k THEN i ELSE MapIndex(m, k, i + 1)

MapHas(m, k) == MapIndex(m, k, 1) # 0

MapGet(m, k) ==
  IF MapHas(m, k) THEN m[MapIndex(m, k, 1)].value ELSE Undefined

\* set() that appends a slot even if the key is there already.
MapSetAppend(m, k, v) == Append(m, [key |-> k, value |-> v])

MapSet(m, k, v) ==
  IF MapHas(m, k)
  THEN [m EXCEPT ![MapIndex(m, k, 1)] = [key |-> k, value |-> v]]
  ELSE Append(m, [key |-> k, value |-> v])

MapDelete(m, k) ==
  IF MapHas(m, k) THEN [m EXCEPT ![MapIndex(m, k, 1)] = EmptySlot] ELSE m

\* The slots of a Map that hold an entry.
Live(m) == {i \in 1..Len(m) : m[i] # EmptySlot}

\* The iterator of Map.values(): the first live slot at index i or later.
RECURSIVE MapNext(_, _)
MapNext(m, i) ==
  IF i > Len(m) THEN 0
  ELSE IF m[i] # EmptySlot THEN i ELSE MapNext(m, i + 1)

\* ------------------------------------------------------- Array.sort
\* executionQueue.sort((a, b) => b.priority - a.priority): a stable sort,
\* descending by priority.  Before(q, i) are the elements that come to stand
\* before q[i]: those of higher priority and, the sort being stable, those of
\* equal priority that stood before it.
Before(q, i) ==
  {j \in 1..Len(q) : \/ q[j].priority > q[i].priority
                      \/ (q[j].priority = q[i].priority /\ j < i)}

\* The comparator with its operands swapped: ascending by priority.
SortAsc(q) ==
  [n \in 1..Len(q) |->
     q[CHOOSE i \in 1..Len(q) :
         Cardinality({j \in 1..Len(q) :
                        \/ q[j].priority < q[i].priority
                        \/ (q[j].priority = q[i].priority /\ j < i)}) = n - 1]]

SortDesc(q) ==
  [n \in 1..Len(q) |->
     q[CHOOSE i \in 1..Len(q) : Cardinality(Before(q, i)) = n - 1]]

\* ------------------------------------------------------- EventEmitter
\* this.emit(name, payload): no listener is registered by the orchestrator
\* itself; the notifications are kept with the number of times each was sent.
NoEvents == [e \in {} |-> 0]
Ev(name, agent, plan, ok) ==
  [name |-> name, agent |-> agent, plan |-> plan, ok |-> ok]
Emit(ev, e) ==
  IF e \in DOMAIN ev THEN [ev EXCEPT ![e] = @ + 1] ELSE ev @@ (e :> 1)
Emitted(e) == IF e \in DOMAIN events THEN events[e] ELSE 0

\* ------------------------------------------------------------ results
\* An ExecutionResult.  `of` is not a field of the program's record: it names
\* the plan whose execute produced the result.
NoError == <<>>
AgentResult(obj, plan, ok) ==
  [success |-> ok,
   output  |-> IF ok THEN <<obj>> ELSE <<>>,
   error   |-> IF ok THEN NoError ELSE <<"failed">>,
   duration |-> 1, cpu |-> 1, memory |-> 1, network |-> 1,
   of |-> plan.id]

\* The result executeParallel makes up for a plan without a registered agent.
NotFoundResult(plan) ==
  [success |-> FALSE,
   output  |-> <<>>,
   error   |-> <<"Agent ", plan.agentId, " not found">>,
   duration |-> 0, cpu |-> 0, memory |-> 0, network |-> 0,
   of |-> plan.id]

\* ------------------------------------------------------- activation record
IdleCall ==
  [mode |-> "none", pc |-> "idle", ai |-> 0, cur |-> Undefined, qi |-> 0,
   flow |-> <<>>, given |-> <<>>, plan |-> <<>>, results |-> <<>>,
   produced |-> {}, planFailed |-> {}, turns |-> <<>>]

\* The list a sequential call walks: the shared queue or the caller's flow
\* (`given` is the list as the caller handed it over).
PlanList(c, queue) == IF calls[c].mode = "code" THEN calls[c].flow ELSE queue

\* The loop without the lookup of the agent: every plan is taken to have one.
NextExecUnchecked(list, m, i) == IF i > Len(list) THEN 0 ELSE i

\* The loop `for (const plan of list)` from index i on: plans whose agent is
\* not registered are skipped (continue) in the same turn.
RECURSIVE NextExec(_, _, _)
NextExec(list, m, i) ==
  IF i > Len(list) THEN 0
  ELSE IF MapGet(m, list[i].agentId) # Undefined THEN i
       ELSE NextExec(list, m, i + 1)

\* The turn of the execution loop starting at index i: either the execute of
\* the next plan with a registered agent is called and awaited, or the loop
\* ends and the call returns.
Turn(kind, plan, agent) == [kind |-> kind, plan |-> plan.id, agent |-> agent]

SkipTurns(list, i, k) ==
  [j \in 1..(k - i) |-> Turn("skip", list[i + j - 1], Undefined)]

\* The loop without the await: the execute of the next plan is called while
\* the one before is still pending.
EnterExecNoAwait(rec, list, i) ==
  LET k == NextExec(list, agents, i)
      k2 == IF k = 0 THEN 0 ELSE NextExec(list, agents, k + 1)
  IN
  IF k # 0 /\ k2 # 0
  THEN [rec EXCEPT !.pc = "awaitExec", !.qi = k2, !.plan = list[k2],
                   !.cur = MapGet(agents, list[k2].agentId),
                   !.turns = @ \o SkipTurns(list, i, k)
                     \o <<Turn("start", list[k], MapGet(agents, list[k].agentId))>>
                     \o SkipTurns(list, k + 1, k2)
                     \o <<Turn("start", list[k2],
                                MapGet(agents, list[k2].agentId))>>]
  ELSE IF k # 0
  THEN [rec EXCEPT !.pc = "awaitExec", !.qi = k, !.plan = list[k],
                   !.cur = MapGet(agents, list[k].agentId),
                   !.turns = Append(@ \o SkipTurns(list, i, k),
                                    Turn("start", list[k],
                                         MapGet(agents, list[k].agentId)))]
  ELSE [rec EXCEPT !.pc = "done", !.qi = Len(list) + 1,
                   !.cur = Undefined, !.plan = <<>>,
                   !.turns = @ \o SkipTurns(list, i, Len(list) + 1)]

\* The loop holding a plan back until every agent it names as a dependency
\* has been executed in the call: a plan whose dependencies are not met ends
\* the walk.
EnterExecDepsFirst(rec, list, i) ==
  LET k == NextExec(list, agents, i)
      met == k # 0 /\ \A d \in list[k].dependencies :
               \E j \in 1..Len(rec.turns) :
                 /\ rec.turns[j].kind \in {"ok", "fail", "throw"}
                 /\ IdOf[rec.turns[j].agent] = d
  IN
  IF k # 0 /\ met
  THEN [rec EXCEPT !.pc = "awaitExec", !.qi = k, !.plan = list[k],
                   !.cur = MapGet(agents, list[k].agentId),
                   !.turns = Append(@ \o SkipTurns(list, i, k),
                                    Turn("start", list[k],
                                         MapGet(agents, list[k].agentId)))]
  ELSE [rec EXCEPT !.pc = "done", !.qi = Len(list) + 1,
                   !.cur = Undefined, !.plan = <<>>]

EnterExec(rec, list, i) ==
  LET k == NextExec(list, agents, i) IN
  IF k # 0
  THEN [rec EXCEPT !.pc = "awaitExec", !.qi = k, !.plan = list[k],
                   !.cur = MapGet(agents, list[k].agentId),
                   !.turns = Append(@ \o SkipTurns(list, i, k),
                                    Turn("start", list[k],
                                         MapGet(agents, list[k].agentId)))]
  ELSE [rec EXCEPT !.pc = "done", !.qi = Len(list) + 1,
                   !.cur = Undefined, !.plan = <<>>,
                   !.turns = @ \o SkipTurns(list, i, Len(list) + 1)]

\* The turn of the planning loop with the iterator at slot i: either the next
\* registered agent's plan is called and awaited, or the queue is sorted and
\* the execution loop entered.
EnterPlan(rec, queue, i) ==
  LET j == MapNext(agents, i) IN
  IF j # 0
  THEN [rec EXCEPT !.pc = "awaitPlan", !.ai = j, !.cur = agents[j].value]
  ELSE EnterExec([rec EXCEPT !.ai = Len(agents) + 1], SortDesc(queue), 1)

QueueAfterPlan(queue, i) ==
  IF MapNext(agents, i) # 0 THEN queue ELSE SortDesc(queue)

\* `data` is the value under the one key of context.data the agents write,
\* `writes` the plans whose execute has written it, in the order of the writes.
IdlePar == [pc |-> "idle", plans |-> <<>>, slots |-> <<>>, order |-> <<>>,
            value |-> <<>>, data |-> Undefined, writes |-> <<>>]

NoEvaluation == <<>>

\* ------------------------------------------- PromptEngineeringAgent
\* The configuration fields the agent reads.  optimizationStrategy "bogus"
\* stands for a configuration validateConfiguration rejects.
DefaultHistoryLimit == 1000
ValidStrategies == {"minimal", "balanced", "aggressive"}
getDefaultConfiguration ==
  [optimizationStrategy |-> "balanced", historyTracking |-> TRUE,
   performanceMetrics |-> TRUE, historyLimit |-> DefaultHistoryLimit]

\* { ...configuration, ...newConfiguration }
Merge(configuration, newConfiguration) ==
  [k \in DOMAIN configuration \cup DOMAIN newConfiguration |->
     IF k \in DOMAIN newConfiguration THEN newConfiguration[k]
     ELSE configuration[k]]

NoConfiguration == [k \in {} |-> 0]

\* new PromptEngineeringAgent(configuration).  `responses` is the Map in
\* insertion order (nothing is ever deleted from it); `tracked`, which is
\* not a field of the program's record, notes whether history tracking was
\* on when the response was recorded.
NewAgent(configuration) ==
  [prompts |-> <<>>, responses |-> <<>>, history |-> <<>>,
   configuration |-> Merge(getDefaultConfiguration, configuration)]

\* What a call on the agent comes to: the agent after it, whether the call
\* threw, and the notifications it emitted.
Outcome(agent, threw, emitted) ==
  [agent |-> agent, threw |-> threw, emitted |-> emitted]

\* addPrompt(prompt): prompt.metadata is read, which throws for null.  A
\* prompt is kept as whether it has a template; its id is its position.
Null == [null |-> TRUE]
addPrompt(agent, prompt) ==
  IF prompt = Null THEN Outcome(agent, TRUE, <<>>)
  ELSE Outcome([agent EXCEPT !.prompts = Append(@, prompt.template)], FALSE,
               <<Ev("promptAdded", "", Len(agent.prompts) + 1, TRUE)>>)

\* processPrompt(promptId) throws NOT_FOUND for an id no prompt carries (0
\* stands for such an id, undefined included) and changes nothing.
processPrompt(agent, promptId) ==
  Outcome(agent, promptId \notin DOMAIN agent.prompts, <<>>)

\* optimizePrompt(promptId) throws NOT_FOUND likewise, and a TypeError when
\* the prompt has no template to call trim() on.
optimizePrompt(agent, promptId) ==
  Outcome(agent, \/ promptId \notin DOMAIN agent.prompts
                 \/ ~agent.prompts[promptId], <<>>)

\* getPromptMetrics(promptId) throws if performance metrics are disabled.
getPromptMetrics(agent, promptId) ==
  Outcome(agent, ~agent.configuration.performanceMetrics, <<>>)

\* recordResponse(promptId, response): the response is stored and, with
\* history tracking on, pushed to the history; if that makes the history
\* longer than a historyLimit that is set (neither undefined nor 0), one
\* entry is shifted out.
recordResponse(agent, promptId) ==
  LET id == Len(agent.responses) + 1
      tracking == agent.configuration.historyTracking
      limit == agent.configuration.historyLimit
      pushed == Append(agent.history, [promptId |-> promptId, responseId |-> id])
      kept == IF limit # 0 /\ Len(pushed) > limit THEN Tail(pushed) ELSE pushed
  IN Outcome([agent EXCEPT
                !.responses = Append(@, [id |-> id, promptId |-> promptId,
                                         tracked |-> tracking]),
                !.history = IF tracking THEN kept ELSE @],
             FALSE, <<Ev("responseRecorded", "", id, TRUE)>>)

\* updateConfiguration(newConfiguration): the merged configuration is
\* assigned before it is validated.
updateConfiguration(agent, newConfiguration) ==
  LET merged == Merge(agent.configuration, newConfiguration) IN
  IF merged.optimizationStrategy \in ValidStrategies
  THEN Outcome([agent EXCEPT !.configuration = merged], FALSE,
               <<Ev("configurationUpdated", "", 0, TRUE)>>)
  ELSE Outcome([agent EXCEPT !.configuration = merged], TRUE, <<>>)

\* ------------------------------------------ PromptEngineeringServer
NoReturn == [tool |-> "", success |-> FALSE, error |-> "", agentThrew |-> FALSE]

\* new PromptEngineeringServer(config).  `returned` is what the last callTool
\* returned, `rejected` whether a callTool call threw; `threw` whether the
\* last call made on the agent directly threw.
NewServer(config) ==
  [agent |-> NewAgent(config), isConnected |-> FALSE,
   returned |-> NoReturn, rejected |-> FALSE, threw |-> FALSE,
   agentOps |-> 0, toolCalls |-> 0, switches |-> 0]

RECURSIVE EmitAll(_, _)
EmitAll(ev, emitted) ==
  IF emitted = <<>> THEN ev ELSE EmitAll(Emit(ev, Head(emitted)), Tail(emitted))

\* ---------------------------------------------------------------- Init
InitAgents == <<[key |-> "x", value |-> "AgentA"],
                [key |-> "y", value |-> "AgentB"]>>

Init ==
  /\ agents = InitAgents
  /\ executionQueue = <<>>
  /\ events = NoEvents
  /\ calls = [c \in Calls |-> IdleCall]
  /\ regOps = 0
  /\ regLog = <<>>
  /\ faults = 0
  /\ par = IdlePar
  /\ evalInput = <<>>
  /\ evaluation = NoEvaluation
  /\ heap = <<>>
  /\ contextStore = <<>>
  /\ ctxLog = <<>>
  /\ mutations = 0
  /\ server = NewServer(NoConfiguration)

Fault(failed) ==
  /\ failed => faults < MaxFaults
  /\ faults' = IF failed THEN faults + 1 ELSE faults

OtherUnchanged == UNCHANGED <<par, evalInput, evaluation, heap, contextStore,
                              ctxLog, mutations, server>>

\* ------------------------------------------------------------ registry
registerAgent(obj) ==
  /\ agents' = MapSet(agents, IdOf[obj], obj)
  /\ regLog' = Append(regLog, [op |-> "register", arg |-> obj])
  /\ events' = Emit(events, Ev("agentRegistered", obj, 0, TRUE))
  /\ regOps' = regOps + 1
  /\ UNCHANGED <<executionQueue, calls, faults>>
  /\ OtherUnchanged

unregisterAgent(id) ==
  /\ agents' = MapDelete(agents, id)
  /\ regLog' = Append(regLog, [op |-> "unregister", arg |-> id])
  /\ events' = Emit(events, Ev("agentUnregistered", id, 0, TRUE))
  /\ regOps' = regOps + 1
  /\ UNCHANGED <<executionQueue, calls, faults>>
  /\ OtherUnchanged

\* The registry on its own, from the empty registry the constructor makes.
InitReg ==
  /\ agents = <<>>
  /\ executionQueue = <<>>
  /\ events = NoEvents
  /\ calls = [c \in Calls |-> IdleCall]
  /\ regOps = 0
  /\ regLog = <<>>
  /\ faults = 0
  /\ par = IdlePar
  /\ evalInput = <<>>
  /\ evaluation = NoEvaluation
  /\ heap = <<>>
  /\ contextStore = <<>>
  /\ ctxLog = <<>>
  /\ mutations = 0
  /\ server = NewServer(NoConfiguration)

NextReg ==
  \/ \E o \in AgentObjs : regOps < MaxRegistry /\ registerAgent(o)
  \/ \E id \in AgentIds \cup {MissingId} :
       regOps < MaxRegistry /\ unregisterAgent(id)

SpecReg == InitReg /\ [][NextReg]_vars

\* What the registry calls made so far leave under an id: the agent of the
\* last registerAgent for the id unless an unregisterAgent of the id followed.
RECURSIVE LastWrite(_, _)
LastWrite(log, id) ==
  IF log = <<>> THEN Undefined
  ELSE LET e == log[Len(log)] IN
       IF e.op = "register" /\ IdOf[e.arg] = id THEN e.arg
       ELSE IF e.op = "unregister" /\ e.arg = id THEN Undefined
       ELSE LastWrite(SubSeq(log, 1, Len(log) - 1), id)

Registrations(o) ==
  Cardinality({i \in 1..Len(regLog) :
                 regLog[i] = [op |-> "register", arg |-> o]})

\* C17: the registry holds at most one agent per id, the one the last
\* registerAgent for that id put there unless an unregisterAgent of the id
\* followed, and agentRegistered was emitted once per registerAgent call.
C17_LastWriteWins ==
  /\ \A id \in AgentIds \cup {MissingId} :
       /\ Cardinality({i \in Live(agents) : agents[i].key = id}) <= 1
       /\ MapGet(agents, id) = LastWrite(regLog, id)
  /\ \A o \in AgentObjs :
       Emitted(Ev("agentRegistered", o, 0, TRUE)) = Registrations(o)

\* AgentC was registered over AgentA, which carries the same id.
C17_Witness ==
  \E i, j \in 1..Len(regLog) :
    /\ i < j /\ j = Len(regLog)
    /\ regLog[i] = [op |-> "register", arg |-> "AgentA"]
    /\ regLog[j] = [op |-> "register", arg |-> "AgentC"]

\* The unregisterAgent calls that found their id registered.
Removals(id) ==
  Cardinality({i \in 1..Len(regLog) :
                 /\ regLog[i] = [op |-> "unregister", arg |-> id]
                 /\ LastWrite(SubSeq(regLog, 1, i - 1), id) # Undefined})

\* C18: agentUnregistered is emitted exactly once per unregisterAgent call
\* that found its id registered, and not for one that did not; after an
\* unregisterAgent of an id nothing is registered under it.
C18_SilentIfAbsent ==
  \A id \in AgentIds \cup {MissingId} :
    /\ Emitted(Ev("agentUnregistered", id, 0, TRUE)) = Removals(id)
    /\ (regLog # <<>> /\ regLog[Len(regLog)] = [op |-> "unregister", arg |-> id])
         => ~MapHas(agents, id)

\* ------------------------------------------------------ orchestrateLLM
\* The call up to its first await.
orchestrateLLM(c) ==
  /\ calls[c].pc = "idle"
  /\ \A d \in Calls : d < c => calls[d].pc # "idle"
  /\ LET rec == EnterPlan([IdleCall EXCEPT !.mode = "llm"], executionQueue, 1)
     IN /\ calls' = [calls EXCEPT ![c] = rec]
        /\ executionQueue' = QueueAfterPlan(executionQueue, 1)
  /\ UNCHANGED <<agents, events, regOps, regLog, faults>>
  /\ OtherUnchanged

\* uuidv4(): an id no other plan carries (call c's k-th plan is 10c+k, the
\* i-th plan of the flow handed to call c is 100c+i).
PlanId(c, produced) == 10 * c + Cardinality(produced) + 1

\* agent.plan(context) resolves with a plan: it is queued.
PlanResolves(c, prio) ==
  /\ calls[c].pc = "awaitPlan"
  /\ LET plan == [id |-> PlanId(c, calls[c].produced),
                  agentId |-> IdOf[calls[c].cur], priority |-> prio,
                  dependencies |-> DepsOf[calls[c].cur]]
         queue == Append(executionQueue, plan)
         rec == [calls[c] EXCEPT !.produced = @ \cup {plan.id}]
     IN /\ calls' = [calls EXCEPT ![c] = EnterPlan(rec, queue, calls[c].ai + 1)]
        /\ executionQueue' = QueueAfterPlan(queue, calls[c].ai + 1)
  /\ UNCHANGED <<agents, events, regOps, regLog, faults>>
  /\ OtherUnchanged

\* The rejection of agent.plan(context) escapes the planning loop: the call
\* itself rejects.
PlanRejectsUncaught(c) ==
  /\ calls[c].pc = "awaitPlan"
  /\ calls' = [calls EXCEPT ![c].pc = "thrown",
                            ![c].planFailed = @ \cup {calls[c].cur}]
  /\ Fault(TRUE)
  /\ UNCHANGED <<agents, executionQueue, events, regOps, regLog>>
  /\ OtherUnchanged

\* agent.plan(context) rejects: planningError is emitted.
PlanRejects(c) ==
  /\ calls[c].pc = "awaitPlan"
  /\ LET rec == [calls[c] EXCEPT !.planFailed = @ \cup {calls[c].cur}]
     IN /\ calls' = [calls EXCEPT
                       ![c] = EnterPlan(rec, executionQueue, calls[c].ai + 1)]
        /\ executionQueue' = QueueAfterPlan(executionQueue, calls[c].ai + 1)
  /\ events' = Emit(events, Ev("planningError", IdOf[calls[c].cur], 0,
                                 FALSE))
  /\ Fault(TRUE)
  /\ UNCHANGED <<agents, regOps, regLog>>
  /\ OtherUnchanged

\* ------------------------------------------------------ orchestrateCode
\* The plans a caller writes by hand (as testOrchestration does): the second
\* has the higher priority and names the first one's agent as a dependency,
\* the third names an agent id nobody carries.
CallerPlans ==
  {[agentId |-> "x", priority |-> 1, dependencies |-> {}],
   [agentId |-> "y", priority |-> 2, dependencies |-> {"x"}],
   [agentId |-> MissingId, priority |-> 1, dependencies |-> {}]}

Flows == UNION {[1..n -> CallerPlans] : n \in 1..MaxFlow}

FlowPlan(c, flow, i) ==
  [id |-> 100 * c + i, agentId |-> flow[i].agentId,
   priority |-> flow[i].priority, dependencies |-> flow[i].dependencies]

\* The flow sorted by priority before it is walked.
orchestrateCodeByPriority(c, flow) ==
  /\ calls[c].pc = "idle"
  /\ \A d \in Calls : d < c => calls[d].pc # "idle"
  /\ LET given == [i \in 1..Len(flow) |-> FlowPlan(c, flow, i)]
         list == SortDesc(given)
         rec == [IdleCall EXCEPT !.mode = "code", !.flow = list,
                                 !.given = given]
     IN calls' = [calls EXCEPT ![c] = EnterExec(rec, list, 1)]
  /\ UNCHANGED <<agents, executionQueue, events, regOps, regLog, faults>>
  /\ OtherUnchanged

orchestrateCode(c, flow) ==
  /\ calls[c].pc = "idle"
  /\ \A d \in Calls : d < c => calls[d].pc # "idle"
  /\ LET list == [i \in 1..Len(flow) |-> FlowPlan(c, flow, i)]
         rec == [IdleCall EXCEPT !.mode = "code", !.flow = list,
                                 !.given = list]
     IN calls' = [calls EXCEPT ![c] = EnterExec(rec, list, 1)]
  /\ UNCHANGED <<agents, executionQueue, events, regOps, regLog, faults>>
  /\ OtherUnchanged

\* ----------------------------------------- the awaited execute settles
\* agent.execute(context, plan) resolves: the result is pushed and
\* executionComplete emitted, whatever the result's success flag.
ExecResolves(c, ok) ==
  /\ calls[c].pc = "awaitExec"
  /\ LET result == AgentResult(calls[c].cur, calls[c].plan, ok)
         rec == [calls[c] EXCEPT
                   !.results = Append(@, result),
                   !.turns = Append(@, Turn(IF ok THEN "ok" ELSE "fail",
                                            calls[c].plan, calls[c].cur))]
     IN calls' = [calls EXCEPT
          ![c] = EnterExec(rec, PlanList(c, executionQueue), calls[c].qi + 1)]
  /\ events' = Emit(events, Ev("executionComplete", "", calls[c].plan.id,
                                 ok))
  /\ Fault(~ok)
  /\ UNCHANGED <<agents, executionQueue, regOps, regLog>>
  /\ OtherUnchanged

\* The rejection escapes the loop: the call itself rejects.
ExecRejectsUncaught(c) ==
  /\ calls[c].pc = "awaitExec"
  /\ calls' = [calls EXCEPT ![c].pc = "thrown",
                            ![c].turns = Append(@, Turn("throw", calls[c].plan,
                                                        calls[c].cur))]
  /\ Fault(TRUE)
  /\ UNCHANGED <<agents, executionQueue, events, regOps, regLog>>
  /\ OtherUnchanged

\* agent.execute(context, plan) rejects: executionError is emitted and
\* nothing is pushed.
ExecRejects(c) ==
  /\ calls[c].pc = "awaitExec"
  /\ LET rec == [calls[c] EXCEPT
                   !.turns = Append(@, Turn("throw", calls[c].plan,
                                            calls[c].cur))]
     IN calls' = [calls EXCEPT
          ![c] = EnterExec(rec, PlanList(c, executionQueue), calls[c].qi + 1)]
  /\ events' = Emit(events, Ev("executionError", "", calls[c].plan.id,
                                 FALSE))
  /\ Fault(TRUE)
  /\ UNCHANGED <<agents, executionQueue, regOps, regLog>>
  /\ OtherUnchanged

Next ==
  \/ \E o \in AgentObjs : regOps < MaxRegOps /\ registerAgent(o)
  \/ \E id \in AgentIds : regOps < MaxRegOps /\ unregisterAgent(id)
  \/ \E c \in Calls : orchestrateLLM(c)
  \/ \E c \in Calls, p \in Priorities : PlanResolves(c, p)
  \/ \E c \in Calls : PlanRejects(c)
  \/ \E c \in Calls, f \in Flows : orchestrateCode(c, f)
  \/ \E c \in Calls, ok \in BOOLEAN : ExecResolves(c, ok)
  \/ \E c \in Calls : ExecRejects(c)

Spec == Init /\ [][Next]_vars

\* ======================================================================
\* Properties of the sequential modes (specification Spec)
\* ======================================================================
Settled == {"ok", "fail", "throw"}
Awaiting(c) == calls[c].pc \in {"awaitPlan", "awaitExec"}
TurnsOf(c) == calls[c].turns
QueuedPlan(id) ==
  CHOOSE p \in {executionQueue[i] : i \in 1..Len(executionQueue)} : p.id = id

\* C1: in an orchestrateLLM call, whenever the execute of a plan B produced
\* in the call is started, the turn of every plan A produced in the call with
\* a strictly higher priority is over: A's execute was called in this call
\* and has settled (or A was passed over because its agent is gone).
C1_PriorityOrder ==
  \A c \in Calls : calls[c].mode = "llm" =>
    \A a, b \in calls[c].produced :
      QueuedPlan(a).priority > QueuedPlan(b).priority =>
        \A j \in 1..Len(TurnsOf(c)) :
          (TurnsOf(c)[j].kind = "start" /\ TurnsOf(c)[j].plan = b) =>
            \E k \in 1..(j - 1) :
              /\ TurnsOf(c)[k].plan = a
              /\ TurnsOf(c)[k].kind \in Settled \cup {"skip"}

\* A call in which a lower-priority plan was executed after a
\* higher-priority plan produced later in the planning loop.
C1_Witness ==
  \E c \in Calls : calls[c].mode = "llm" /\
    \E a, b \in calls[c].produced :
      /\ a > b
      /\ QueuedPlan(a).priority > QueuedPlan(b).priority
      /\ \E j, k \in 1..Len(TurnsOf(c)) :
           /\ k < j
           /\ TurnsOf(c)[k].plan = a /\ TurnsOf(c)[k].kind \in Settled
           /\ TurnsOf(c)[j].plan = b /\ TurnsOf(c)[j].kind = "start"

\* C2: an orchestrateCode call in which an execute threw (and every plan's
\* agent was registered) returns one entry per plan of the flow, the entry
\* of the throwing plan having success=false.
C2_EntryPerPlan ==
  \A c \in Calls :
    (/\ calls[c].mode = "code" /\ calls[c].pc = "done"
     /\ \A j \in 1..Len(TurnsOf(c)) : TurnsOf(c)[j].kind # "skip") =>
      /\ Len(calls[c].results) = Len(calls[c].flow)
      /\ \A i \in 1..Len(calls[c].flow) :
           /\ calls[c].results[i].of = calls[c].flow[i].id
           /\ (\E j \in 1..Len(TurnsOf(c)) :
                  /\ TurnsOf(c)[j].kind = "throw"
                  /\ TurnsOf(c)[j].plan = calls[c].flow[i].id)
                => ~calls[c].results[i].success

\* C8: in an orchestrateLLM call, an agent whose plan call threw has its
\* planningError notification, and its execute is never called in this call.
C8_PlanFailureExcludes ==
  \A c \in Calls : calls[c].mode = "llm" =>
    \A o \in calls[c].planFailed :
      /\ Emitted(Ev("planningError", IdOf[o], 0, FALSE)) >= 1
      /\ \A j \in 1..Len(TurnsOf(c)) :
           ~(TurnsOf(c)[j].kind = "start" /\ TurnsOf(c)[j].agent = o)

\* C9: an orchestrateLLM call never rejects; every execute that threw has
\* its executionError notification and every execute that returned
\* success=false its executionComplete notification carrying that result;
\* and the call returns only after the turn of every plan it produced.
C9_ExecFailureIsolated ==
  \A c \in Calls : calls[c].mode = "llm" =>
    /\ calls[c].pc # "thrown"
    /\ \A j \in 1..Len(TurnsOf(c)) :
         /\ TurnsOf(c)[j].kind = "throw" =>
              Emitted(Ev("executionError", "", TurnsOf(c)[j].plan, FALSE)) >= 1
         /\ TurnsOf(c)[j].kind = "fail" =>
              Emitted(Ev("executionComplete", "", TurnsOf(c)[j].plan, FALSE)) >= 1
    /\ calls[c].pc = "done" =>
         \A p \in calls[c].produced :
           \E j \in 1..Len(TurnsOf(c)) :
             /\ TurnsOf(c)[j].plan = p
             /\ TurnsOf(c)[j].kind \in Settled \cup {"skip"}

\* A call that has returned after an execute failed and a later plan's
\* execute succeeded.
C9_Witness ==
  \E c \in Calls :
    /\ calls[c].mode = "llm" /\ calls[c].pc = "done"
    /\ \E j, k \in 1..Len(TurnsOf(c)) :
         /\ j < k
         /\ TurnsOf(c)[j].kind \in {"throw", "fail"}
         /\ TurnsOf(c)[k].kind = "ok"

\* C10: in a sequential mode, every plan passed over because no agent is
\* registered under its agentId has a failed result in the returned list.
C10_MissingAgentResult ==
  \A c \in Calls : calls[c].pc = "done" =>
    \A j \in 1..Len(TurnsOf(c)) : TurnsOf(c)[j].kind = "skip" =>
      \E i \in 1..Len(calls[c].results) :
        /\ calls[c].results[i].of = TurnsOf(c)[j].plan
        /\ ~calls[c].results[i].success

\* C11: within one orchestrateLLM or orchestrateCode call at most one
\* execute is in flight: every execute the call started has settled before
\* the call does anything else, so the next start comes after that settle.
C11_OneExecuteInFlight ==
  \A c \in Calls :
    /\ \A j \in 1..(Len(TurnsOf(c)) - 1) :
         TurnsOf(c)[j].kind = "start" =>
           /\ TurnsOf(c)[j + 1].kind \in Settled
           /\ TurnsOf(c)[j + 1].plan = TurnsOf(c)[j].plan
    /\ (Len(TurnsOf(c)) > 0 /\ TurnsOf(c)[Len(TurnsOf(c))].kind = "start") =>
         (calls[c].pc = "awaitExec"
          /\ calls[c].plan.id = TurnsOf(c)[Len(TurnsOf(c))].plan)

\* A call of each sequential mode that has started a second execute.
C11_Witness ==
  \A m \in {"llm", "code"} :
    \E c \in Calls :
      /\ calls[c].mode = m
      /\ \E j, k \in 1..Len(TurnsOf(c)) :
           j < k /\ TurnsOf(c)[j].kind = "start" /\ TurnsOf(c)[k].kind = "start"

\* The plans an orchestrate call has come to in its execution loop, in order.
RECURSIVE Visits(_)
Visits(turns) ==
  IF turns = <<>> THEN <<>>
  ELSE (IF Head(turns).kind \in {"start", "skip"}
        THEN <<Head(turns).plan>> ELSE <<>>) \o Visits(Tail(turns))

\* C12: an orchestrateCode call comes to the plans in the order of the
\* caller's list: the n-th plan it executes or passes over is the n-th plan
\* of the list, whatever the priorities and dependencies say.
C12_CallerOrder ==
  \A c \in Calls : calls[c].mode = "code" =>
    /\ Len(Visits(TurnsOf(c))) <= Len(calls[c].given)
    /\ \A n \in 1..Len(Visits(TurnsOf(c))) :
         Visits(TurnsOf(c))[n] = calls[c].given[n].id
    /\ calls[c].pc = "done" => Len(Visits(TurnsOf(c))) = Len(calls[c].given)

Executed(c, id) ==
  \E j \in 1..Len(TurnsOf(c)) :
    TurnsOf(c)[j].plan = id /\ TurnsOf(c)[j].kind \in Settled

\* One call has executed a plan of lower priority before one of higher
\* priority, and one has executed a plan before the plan of the agent it
\* names as a dependency.
C12_Witness ==
  /\ \E c \in Calls :
       /\ calls[c].mode = "code" /\ Len(calls[c].given) = 2
       /\ calls[c].given[1].priority < calls[c].given[2].priority
       /\ Executed(c, calls[c].given[1].id) /\ Executed(c, calls[c].given[2].id)
  /\ \E c \in Calls :
       /\ calls[c].mode = "code" /\ Len(calls[c].given) = 2
       /\ calls[c].given[2].agentId \in calls[c].given[1].dependencies
       /\ Executed(c, calls[c].given[1].id) /\ Executed(c, calls[c].given[2].id)

\* C13: the list an orchestrateLLM call returns (on an orchestrator whose
\* registry was not changed) is in descending order of the plans'
\* priority, results of plans of equal priority being in the order in which
\* their agents were registered.
C13_ResultsByPriority ==
  \A c \in Calls : (calls[c].mode = "llm" /\ regOps = 0) =>
    \A i, j \in 1..Len(calls[c].results) : i < j =>
      LET p == QueuedPlan(calls[c].results[i].of)
          q == QueuedPlan(calls[c].results[j].of)
      IN /\ p.priority >= q.priority
         /\ p.priority = q.priority =>
              MapIndex(agents, p.agentId, 1) <= MapIndex(agents, q.agentId, 1)

Starts(c) == {j \in 1..Len(TurnsOf(c)) : TurnsOf(c)[j].kind = "start"}

\* C20: on an orchestrator with n registered agents whose plan and execute
\* calls all succeed, every orchestrateLLM call that has returned has called
\* execute exactly n times and returned exactly n results.
C20_OwnPlansOnly ==
  \A c \in Calls :
    (calls[c].mode = "llm" /\ calls[c].pc = "done"
     /\ faults = 0 /\ regOps = 0) =>
      /\ Cardinality(Starts(c)) = Cardinality(Live(agents))
      /\ Len(calls[c].results) = Cardinality(Live(agents))

\* Every plan the orchestrator has been given or has queued.
AllPlans ==
  {executionQueue[i] : i \in 1..Len(executionQueue)}
    \cup UNION {{calls[c].given[i] : i \in 1..Len(calls[c].given)} : c \in Calls}
PlanById(id) == CHOOSE p \in AllPlans : p.id = id

\* C21: the execute of a plan is never called if the plan's dependencies
\* name an id under which no agent is or ever was registered.
C21_UnknownDependencyFailsFast ==
  \A c \in Calls : \A j \in 1..Len(TurnsOf(c)) :
    TurnsOf(c)[j].kind = "start" =>
      PlanById(TurnsOf(c)[j].plan).dependencies \subseteq AgentIds

\* C22: in an orchestrateLLM call, a plan P that names the agent of plan Q as
\* a dependency and has the higher priority comes to its turn before Q's
\* execute is started, and a call that has returned has come to every plan
\* it produced, dependency cycle or not.
C22_DependenciesIgnored ==
  \A c \in Calls : calls[c].mode = "llm" =>
    /\ \A p, q \in calls[c].produced :
         (/\ QueuedPlan(q).agentId \in QueuedPlan(p).dependencies
          /\ QueuedPlan(p).priority > QueuedPlan(q).priority) =>
           \A j \in 1..Len(TurnsOf(c)) :
             (TurnsOf(c)[j].kind = "start" /\ TurnsOf(c)[j].plan = q) =>
               \E k \in 1..(j - 1) :
                 /\ TurnsOf(c)[k].plan = p
                 /\ TurnsOf(c)[k].kind \in {"start", "skip"}
    /\ calls[c].pc = "done" =>
         \A p \in calls[c].produced :
           \E j \in 1..Len(TurnsOf(c)) :
             TurnsOf(c)[j].plan = p /\ TurnsOf(c)[j].kind \in {"start", "skip"}

\* A call has returned in which P, of higher priority and depending on Q's
\* agent, was executed before Q, whose plan in turn depends on P's agent.
C22_Witness ==
  \E c \in Calls :
    /\ calls[c].mode = "llm" /\ calls[c].pc = "done"
    /\ \E p, q \in calls[c].produced :
         /\ QueuedPlan(q).agentId \in QueuedPlan(p).dependencies
         /\ QueuedPlan(p).agentId \in QueuedPlan(q).dependencies
         /\ QueuedPlan(p).priority > QueuedPlan(q).priority
         /\ \E j, k \in 1..Len(TurnsOf(c)) :
              /\ k < j
              /\ TurnsOf(c)[k].plan = p /\ TurnsOf(c)[k].kind \in Settled
              /\ TurnsOf(c)[j].plan = q /\ TurnsOf(c)[j].kind = "start"

\* The number of times the execute of plan `id` was started, over all calls.
StartsOf(id) ==
  Cardinality(UNION {{<<c, j>> : j \in {k \in 1..Len(TurnsOf(c)) :
                        /\ TurnsOf(c)[k].plan = id
                        /\ TurnsOf(c)[k].kind = "start"}} : c \in Calls})

\* C27: while two orchestrateLLM calls overlap (the first awaits an agent
\* call, the second has been started), no plan's execute has been started
\* more than once, and every result is in the list of the call that produced
\* its plan.
C27_ExecutedOnceByOwner ==
  (/\ Awaiting(1) /\ calls[1].mode = "llm"
   /\ calls[2].mode = "llm") =>
     /\ \A p \in AllPlans : StartsOf(p.id) <= 1
     /\ \A c \in Calls : \A i \in 1..Len(calls[c].results) :
          calls[c].results[i].of \in calls[c].produced

\* The notifications sent for plan `id`, and the settled executes of it.
NotificationsOf(id) ==
  Emitted(Ev("executionComplete", "", id, TRUE))
    + Emitted(Ev("executionComplete", "", id, FALSE))
    + Emitted(Ev("executionError", "", id, FALSE))
SettledOf(id) ==
  Cardinality(UNION {{<<c, j>> : j \in {k \in 1..Len(TurnsOf(c)) :
                        /\ TurnsOf(c)[k].plan = id
                        /\ TurnsOf(c)[k].kind \in Settled}} : c \in Calls})

\* The plans whose execute resolved in call c, in the order of the resolving.
RECURSIVE Completed(_)
Completed(turns) ==
  IF turns = <<>> THEN <<>>
  ELSE (IF Head(turns).kind \in {"ok", "fail"}
        THEN <<Head(turns).plan>> ELSE <<>>) \o Completed(Tail(turns))

\* C28: for every plan whose execute was called and has settled, exactly one
\* notification (executionComplete or executionError) was sent for its plan
\* id; and the result list of a call holds one result per executionComplete
\* of the call, in the order of the notifications, and none for a plan that
\* got executionError.
C28_OneNotificationPerPlan ==
  /\ \A p \in AllPlans :
       /\ NotificationsOf(p.id) <= 1
       /\ SettledOf(p.id) >= 1 => NotificationsOf(p.id) = 1
  /\ \A c \in Calls :
       /\ Len(calls[c].results) = Len(Completed(TurnsOf(c)))
       /\ \A i \in 1..Len(calls[c].results) :
            calls[c].results[i].of = Completed(TurnsOf(c))[i]

\* C29: whenever a call comes to a plan, it calls execute on the agent that
\* is registered under the plan's agentId at that moment, and passes the
\* plan over if none is; a plan passed over yields no result and no
\* notification: a call's list has one result per resolved execute, and
\* the notifications of a plan are as many as its settled executes.
C29_RegisteredAtCallTime ==
  /\ [](/\ \A c \in Calls :
            Len(calls[c].results) = Len(Completed(TurnsOf(c)))
        /\ \A p \in AllPlans : NotificationsOf(p.id) = SettledOf(p.id))
  /\ [][\A c \in Calls :
          \A j \in (Len(calls[c].turns) + 1)..Len(calls'[c].turns) :
            LET turn == calls'[c].turns[j]
                list == IF calls'[c].mode = "code" THEN calls'[c].flow
                        ELSE executionQueue'
                id == (CHOOSE p \in {list[i] : i \in 1..Len(list)} :
                         p.id = turn.plan).agentId
            IN /\ turn.kind = "start" =>
                    (turn.agent # Undefined /\ turn.agent = MapGet(agents', id))
               /\ turn.kind = "skip" => MapGet(agents', id) = Undefined]_vars

\* AgentC was registered under the id of AgentA after AgentA's plan had been
\* queued, and a call has executed that plan on AgentC.
C29_Witness ==
  /\ regLog = <<[op |-> "register", arg |-> "AgentC"]>>
  /\ \E c \in Calls : calls[c].mode = "llm" /\
       \E j \in 1..Len(TurnsOf(c)) :
         /\ TurnsOf(c)[j].kind \in Settled
         /\ TurnsOf(c)[j].agent = "AgentC"
         /\ TurnsOf(c)[j].plan \in calls[c].produced
         /\ QueuedPlan(TurnsOf(c)[j].plan).dependencies = DepsOf["AgentA"]

\* ------------------------------------------------------ executeParallel
\* plans.map(...): in the turn of the call, every plan's agent is looked up
\* and either its execute is called (the promise is pending) or a promise
\* already resolved with the synthesized result is made.
ParSlot(plan) ==
  LET agent == MapGet(agents, plan.agentId) IN
  IF agent = Undefined
  THEN [state |-> "fulfilled", agent |-> Undefined,
        result |-> NotFoundResult(plan)]
  ELSE [state |-> "pending", agent |-> agent, result |-> <<>>]

\* The values gathered as the promises settle (completion order) instead of
\* by input position.
RECURSIVE Gather(_, _)
Gather(slots, done) ==
  IF done = <<>> THEN <<>>
  ELSE <<slots[Head(done)].result>> \o Gather(slots, Tail(done))

RECURSIVE Presettled(_, _)
Presettled(slots, i) ==
  IF i > Len(slots) THEN <<>>
  ELSE (IF slots[i].agent = Undefined THEN <<i>> ELSE <<>>)
       \o Presettled(slots, i + 1)

PromiseAllByCompletion(p, slots) ==
  IF p.pc # "pending" THEN [p EXCEPT !.slots = slots]
  ELSE IF \E i \in 1..Len(slots) : slots[i].state = "rejected"
  THEN [p EXCEPT !.pc = "rejected", !.slots = slots]
  ELSE IF \A i \in 1..Len(slots) : slots[i].state = "fulfilled"
  THEN [p EXCEPT !.pc = "fulfilled", !.slots = slots,
                 !.value = Gather(slots, Presettled(slots, 1) \o p.order)]
  ELSE [p EXCEPT !.slots = slots]

\* Promise.all(executions): rejected as soon as one promise is rejected,
\* fulfilled with the values in the order of the input once all are
\* fulfilled, pending otherwise.  A promise that is settled stays settled.
PromiseAll(p, slots) ==
  IF p.pc # "pending" THEN [p EXCEPT !.slots = slots]
  ELSE IF \E i \in 1..Len(slots) : slots[i].state = "rejected"
  THEN [p EXCEPT !.pc = "rejected", !.slots = slots]
  ELSE IF \A i \in 1..Len(slots) : slots[i].state = "fulfilled"
  THEN [p EXCEPT !.pc = "fulfilled", !.slots = slots,
                 !.value = [i \in 1..Len(slots) |-> slots[i].result]]
  ELSE [p EXCEPT !.slots = slots]

ParPlans == UNION {[1..n -> CallerPlans] : n \in 1..MaxPlans}

\* The executes awaited one after the other: only the first plan with a
\* registered agent is started in the turn of the call.
executeParallelAwaitEach(flow) ==
  /\ par.pc = "idle"
  /\ LET plans == [i \in 1..Len(flow) |-> FlowPlan(0, flow, i)]
         first == NextExec(plans, agents, 1)
         slots == [i \in 1..Len(plans) |->
                    IF i = first \/ MapGet(agents, plans[i].agentId) = Undefined
                    THEN ParSlot(plans[i])
                    ELSE [ParSlot(plans[i]) EXCEPT !.state = "unstarted"]]
     IN par' = PromiseAll([IdlePar EXCEPT !.pc = "pending", !.plans = plans],
                          slots)
  /\ UNCHANGED <<agents, executionQueue, events, calls, regOps, regLog, faults,
                 evalInput, evaluation, heap, contextStore, ctxLog, mutations, server>>

executeParallel(flow) ==
  /\ par.pc = "idle"
  /\ LET plans == [i \in 1..Len(flow) |-> FlowPlan(0, flow, i)]
         slots == [i \in 1..Len(plans) |-> ParSlot(plans[i])]
     IN par' = PromiseAll([IdlePar EXCEPT !.pc = "pending", !.plans = plans],
                          slots)
  /\ UNCHANGED <<agents, executionQueue, events, calls, regOps, regLog, faults,
                 evalInput, evaluation, heap, contextStore, ctxLog, mutations, server>>

\* The execute of the i-th plan resolves.
ParResolves(i, ok) ==
  /\ par.pc # "idle"
  /\ i \in 1..Len(par.slots)
  /\ par.slots[i].state = "pending"
  /\ Fault(~ok)
  /\ LET result == AgentResult(par.slots[i].agent, par.plans[i], ok)
         slots == [par.slots EXCEPT ![i].state = "fulfilled",
                                    ![i].result = result]
     IN par' = PromiseAll([par EXCEPT !.order = Append(@, i)], slots)
  /\ UNCHANGED <<agents, executionQueue, events, calls, regOps, regLog,
                 evalInput, evaluation, heap, contextStore, ctxLog, mutations, server>>

\* The execute of the i-th plan rejects.
ParRejects(i) ==
  /\ par.pc # "idle"
  /\ i \in 1..Len(par.slots)
  /\ par.slots[i].state = "pending"
  /\ Fault(TRUE)
  /\ LET slots == [par.slots EXCEPT ![i].state = "rejected"]
     IN par' = PromiseAll([par EXCEPT !.order = Append(@, i)], slots)
  /\ UNCHANGED <<agents, executionQueue, events, calls, regOps, regLog,
                 evalInput, evaluation, heap, contextStore, ctxLog, mutations, server>>

\* The write that leaves a value already there alone.
AgentWritesIfAbsent(i) ==
  /\ par.pc # "idle"
  /\ i \in 1..Len(par.slots)
  /\ par.slots[i].state = "pending"
  /\ Len(par.writes) < MaxWrites
  /\ \A n \in 1..Len(par.writes) : par.writes[n] # i
  /\ par' = [par EXCEPT
               !.data = IF @ = Undefined THEN par.slots[i].agent ELSE @,
               !.writes = Append(@, i)]
  /\ UNCHANGED <<agents, executionQueue, events, calls, regOps, regLog, faults,
                 evalInput, evaluation, heap, contextStore, ctxLog, mutations, server>>

\* The running execute of the i-th plan assigns context.data[key]: every
\* execute got the same context object (part of the call's arguments), and
\* where in its run an agent writes is the agent's business.
AgentWrites(i) ==
  /\ par.pc # "idle"
  /\ i \in 1..Len(par.slots)
  /\ par.slots[i].state = "pending"
  /\ Len(par.writes) < MaxWrites
  /\ \A n \in 1..Len(par.writes) : par.writes[n] # i
  /\ par' = [par EXCEPT !.data = par.slots[i].agent, !.writes = Append(@, i)]
  /\ UNCHANGED <<agents, executionQueue, events, calls, regOps, regLog, faults,
                 evalInput, evaluation, heap, contextStore, ctxLog, mutations, server>>

\* ======================================================================
\* Properties of the parallel mode (specification SpecPar)
\* ======================================================================
ParSettled == par.pc # "idle" /\
              \A i \in 1..Len(par.slots) : par.slots[i].state # "pending"
ParMissing == {i \in 1..Len(par.slots) : par.slots[i].agent = Undefined}

\* C3: an executeParallel call never rejects; once every execute call has
\* settled it has returned one entry per input plan, and the entry of every
\* plan whose execute resolved is that execute's result.
C3_ParallelNeverRejects ==
  /\ par.pc # "rejected"
  /\ ParSettled =>
       /\ par.pc = "fulfilled"
       /\ Len(par.value) = Len(par.plans)
       /\ \A i \in 1..Len(par.slots) :
            par.slots[i].state = "fulfilled" => par.value[i] = par.slots[i].result

\* C4: an executeParallel call with N plans of which exactly one names an
\* unregistered agent never rejects; once every execute call has settled it
\* has returned N entries, the missing agent's entry being the failed result
\* with the not-found error and every other entry its agent's result.
C4_MissingAgentSlot ==
  Cardinality(ParMissing) = 1 =>
    /\ par.pc # "rejected"
    /\ ParSettled =>
         /\ par.pc = "fulfilled"
         /\ Len(par.value) = Len(par.plans)
         /\ \A i \in 1..Len(par.slots) :
              IF i \in ParMissing
              THEN /\ ~par.value[i].success
                   /\ par.value[i].error = <<"Agent ", par.plans[i].agentId,
                                             " not found">>
              ELSE par.value[i] = par.slots[i].result

\* C5: the list an executeParallel call returns holds at position i the
\* result of the i-th input plan: the made-up not-found result if the plan's
\* agent was not registered, else what that agent's execute of that plan
\* returned.
C5_InputOrder ==
  par.pc = "fulfilled" =>
    /\ Len(par.value) = Len(par.plans)
    /\ \A i \in 1..Len(par.plans) :
         IF par.slots[i].agent = Undefined
         THEN par.value[i] = NotFoundResult(par.plans[i])
         ELSE \E ok \in BOOLEAN :
                par.value[i] = AgentResult(par.slots[i].agent, par.plans[i], ok)

\* A call that returned although a later plan's execute settled before an
\* earlier plan's.
C5_Witness ==
  /\ par.pc = "fulfilled"
  /\ \E j, k \in 1..Len(par.order) : j < k /\ par.order[j] > par.order[k]

\* C23: once executeParallel was called, the execute of every plan whose
\* agent was registered is running or has settled: each one that has not
\* settled can resolve whatever its siblings do; and the call has returned
\* only if every execute has resolved.
C23_AllStartedBeforeJoin ==
  par.pc # "idle" =>
    /\ \A i \in 1..Len(par.slots) :
         (/\ par.slots[i].agent # Undefined
          /\ par.slots[i].state \notin {"fulfilled", "rejected"}) =>
           ENABLED ParResolves(i, TRUE)
    /\ par.pc = "fulfilled" =>
         \A i \in 1..Len(par.slots) : par.slots[i].state = "fulfilled"

\* The execute of an earlier plan has not settled, that of a later plan has
\* resolved, and the call has not returned.
C23_Witness ==
  /\ par.pc = "pending"
  /\ \E i, j \in 1..Len(par.slots) :
       /\ i < j
       /\ par.slots[i].state = "pending"
       /\ par.slots[j].state = "fulfilled" /\ par.slots[j].agent # Undefined

NextPar ==
  \/ \E o \in AgentObjs : regOps < MaxRegOps /\ registerAgent(o)
  \/ \E id \in AgentIds : regOps < MaxRegOps /\ unregisterAgent(id)
  \/ \E f \in ParPlans : executeParallel(f)
  \/ \E i \in 1..MaxPlans, ok \in BOOLEAN : ParResolves(i, ok)
  \/ \E i \in 1..MaxPlans : ParRejects(i)

SpecPar == Init /\ [][NextPar]_vars

\* ======================================================================
\* Termination: every agent call that is awaited settles in the end
\* ======================================================================
\* A caller runs either the sequential modes or the parallel mode on an
\* orchestrator whose registry it leaves alone.
NextLive ==
  \/ \E c \in Calls : par.pc = "idle" /\ orchestrateLLM(c)
  \/ \E c \in Calls, p \in Priorities : PlanResolves(c, p)
  \/ \E c \in Calls : PlanRejects(c)
  \/ \E c \in Calls, f \in Flows : par.pc = "idle" /\ orchestrateCode(c, f)
  \/ \E c \in Calls, ok \in BOOLEAN : ExecResolves(c, ok)
  \/ \E c \in Calls : ExecRejects(c)
  \/ \E f \in ParPlans : calls[1].pc = "idle" /\ executeParallel(f)
  \/ \E i \in 1..MaxPlans, ok \in BOOLEAN : ParResolves(i, ok)
  \/ \E i \in 1..MaxPlans : ParRejects(i)

\* The promise an agent's plan or execute returned settles: it resolves or
\* it rejects.
PlanSettles(c) == (\E p \in Priorities : PlanResolves(c, p)) \/ PlanRejects(c)
ExecSettles(c) == (\E ok \in BOOLEAN : ExecResolves(c, ok)) \/ ExecRejects(c)
ParSettles(i) == (\E ok \in BOOLEAN : ParResolves(i, ok)) \/ ParRejects(i)

SpecLive ==
  /\ Init /\ [][NextLive]_vars
  /\ \A c \in Calls : WF_vars(PlanSettles(c)) /\ WF_vars(ExecSettles(c))
  /\ \A i \in 1..MaxPlans : WF_vars(ParSettles(i))

\* C24: a call of a sequential mode that awaits an agent call returns in the
\* end, and an executeParallel call that is pending is settled in the end;
\* and while a sequential call awaits an agent call nothing but the settling
\* of that agent call moves it: its next step takes the plan's result or
\* notes the failure of the awaited plan or execute.
C24_Termination ==
  /\ \A c \in Calls : Awaiting(c) ~> (calls[c].pc = "done")
  /\ (par.pc = "pending") ~> (par.pc \in {"fulfilled", "rejected"})
  /\ [][\A c \in Calls :
          (Awaiting(c) /\ calls'[c] # calls[c]) =>
            IF calls[c].pc = "awaitExec"
            THEN /\ Len(calls'[c].turns) > Len(calls[c].turns)
                 /\ calls'[c].turns[Len(calls[c].turns) + 1].kind \in Settled
                 /\ calls'[c].turns[Len(calls[c].turns) + 1].plan
                      = calls[c].plan.id
            ELSE \/ Cardinality(calls'[c].produced)
                      = Cardinality(calls[c].produced) + 1
                 \/ calls'[c].planFailed
                      = calls[c].planFailed \cup {calls[c].cur}]_vars

\* Both calls have returned, one of each sequential mode, each after
\* awaiting two executes.
C24_Witness ==
  /\ \A c \in Calls : calls[c].pc = "done" /\ Cardinality(Starts(c)) >= 2
  /\ \E c, d \in Calls : calls[c].mode = "llm" /\ calls[d].mode = "code"

\* The parallel mode with agents that write to the context they share.
NextRace ==
  \/ \E f \in ParPlans : executeParallel(f)
  \/ \E i \in 1..MaxPlans, ok \in BOOLEAN : ParResolves(i, ok)
  \/ \E i \in 1..MaxPlans : ParRejects(i)
  \/ \E i \in 1..MaxPlans : AgentWrites(i)

SpecRace == Init /\ [][NextRace]_vars

\* ---------------------------------------------------- evaluateExecution
\* The result lists a caller may hand in.
UsageSamples == {[cpu |-> 0, memory |-> 0, network |-> 0],
                 [cpu |-> MaxMetric, memory |-> 1, network |-> 0]}
EvalResults ==
  {[success |-> ok, output |-> <<>>, error |-> e, duration |-> d,
    cpu |-> u.cpu, memory |-> u.memory, network |-> u.network, of |-> 0] :
     ok \in BOOLEAN, e \in {NoError, <<"failed">>}, d \in 0..MaxMetric,
     u \in UsageSamples}
ResultLists == UNION {[1..n -> EvalResults] : n \in 0..MaxResults}

\* A JavaScript number: a / b is NaN for 0 / 0, else the quotient, kept as
\* the fraction a over b.
NaN == [nan |-> TRUE, num |-> 0, den |-> 0]
Divide(a, b) == IF a = 0 /\ b = 0 THEN NaN ELSE [nan |-> FALSE, num |-> a, den |-> b]

\* results.reduce((sum, r) => sum + r[field], 0)
RECURSIVE Reduce(_, _)
Reduce(field, results) ==
  IF results = <<>> THEN 0
  ELSE Reduce(field, SubSeq(results, 1, Len(results) - 1))
       + results[Len(results)][field]

\* results.map(r => r.error), without the filter: one slot per result.
RECURSIVE AllErrors(_)
AllErrors(results) ==
  IF results = <<>> THEN <<>>
  ELSE <<Head(results).error>> \o AllErrors(Tail(results))

\* results.filter(r => !r.success).map(r => r.error)
RECURSIVE FailedErrors(_)
FailedErrors(results) ==
  IF results = <<>> THEN <<>>
  ELSE (IF ~Head(results).success THEN <<Head(results).error>> ELSE <<>>)
       \o FailedErrors(Tail(results))

\* The evaluation with totalTime taken as the span from the shortest to the
\* longest duration instead of the sum.
EvaluateSpan(results) ==
  LET ds == {results[i].duration : i \in 1..Len(results)}
      hi == IF ds = {} THEN 0 ELSE CHOOSE d \in ds : \A e \in ds : e <= d
  IN
  [success |-> \A i \in 1..Len(results) : results[i].success,
   totalTime |-> hi,
   averageResourceUsage |->
     [cpu |-> Divide(Reduce("cpu", results), Len(results)),
      memory |-> Divide(Reduce("memory", results), Len(results)),
      network |-> Divide(Reduce("network", results), Len(results))],
   errors |-> FailedErrors(results)]

Evaluate(results) ==
  [success |-> \A i \in 1..Len(results) : results[i].success,
   totalTime |-> Reduce("duration", results),
   averageResourceUsage |->
     [cpu |-> Divide(Reduce("cpu", results), Len(results)),
      memory |-> Divide(Reduce("memory", results), Len(results)),
      network |-> Divide(Reduce("network", results), Len(results))],
   errors |-> FailedErrors(results)]

\* The evaluation that empties the list it was handed (results.pop() in a
\* loop instead of reduce).
evaluateExecutionConsuming ==
  /\ Len(evaluation) < MaxEvals
  /\ evaluation' = Append(evaluation, Evaluate(evalInput))
  /\ evalInput' = <<>>
  /\ events' = Emit(events, Ev("evaluationComplete", "", 0,
                               Evaluate(evalInput).success))
  /\ UNCHANGED <<agents, executionQueue, calls, regOps, regLog, faults, par,
                 heap, contextStore, ctxLog, mutations, server>>

evaluateExecution ==
  /\ Len(evaluation) < MaxEvals
  /\ evaluation' = Append(evaluation, Evaluate(evalInput))
  /\ events' = Emit(events, Ev("evaluationComplete", "", 0,
                               Evaluate(evalInput).success))
  /\ UNCHANGED <<agents, executionQueue, calls, regOps, regLog, faults, par, evalInput,
                 heap, contextStore, ctxLog, mutations, server>>

InitEval ==
  /\ agents = InitAgents
  /\ executionQueue = <<>>
  /\ events = NoEvents
  /\ calls = [c \in Calls |-> IdleCall]
  /\ regOps = 0
  /\ regLog = <<>>
  /\ faults = 0
  /\ par = IdlePar
  /\ evalInput \in ResultLists
  /\ evaluation = NoEvaluation
  /\ heap = <<>>
  /\ contextStore = <<>>
  /\ ctxLog = <<>>
  /\ mutations = 0
  /\ server = NewServer(NoConfiguration)

NextEval == evaluateExecution

SpecEval == InitEval /\ [][NextEval]_vars

\* C7: evaluateExecution of the empty list returns an Evaluation Result
\* whose averageResourceUsage fields are all numbers (none is NaN).
C7_EmptyIsNeutral ==
  \A n \in 1..Len(evaluation) : evalInput = <<>> =>
    /\ ~evaluation[n].averageResourceUsage.cpu.nan
    /\ ~evaluation[n].averageResourceUsage.memory.nan
    /\ ~evaluation[n].averageResourceUsage.network.nan

\* The failed results of a list, by position.
Failed(results) == {i \in 1..Len(results) : ~results[i].success}
Rank(results, i) == Cardinality({j \in Failed(results) : j <= i})
RECURSIVE Weighted(_, _)
Weighted(results, d) ==
  IF d = 0 THEN 0
  ELSE d * Cardinality({i \in 1..Len(results) : results[i].duration = d})
       + Weighted(results, d - 1)
TotalDuration(results) == Weighted(results, MaxMetric)

\* C14: the Evaluation Result has success true exactly if no input result
\* has success=false, and totalTime equal to the sum of the results'
\* durations.
C14_SuccessAndTotal ==
  \A n \in 1..Len(evaluation) :
    /\ evaluation[n].success = (Failed(evalInput) = {})
    /\ evaluation[n].totalTime = TotalDuration(evalInput)

\* An evaluation of two results of different, non-zero total duration, one
\* of them failed.
C14_Witness ==
  /\ Len(evaluation) >= 1 /\ Len(evalInput) = 2
  /\ evalInput[1].duration > 0 /\ evalInput[2].duration > 0
  /\ evalInput[1].success /\ ~evalInput[2].success

\* C15 as claimed: the errors list has one slot per input result, the slot
\* of a failed result holding its error message and the slot of a successful
\* result being undefined.
C15_SlotPerResult ==
  \A n \in 1..Len(evaluation) :
    /\ Len(evaluation[n].errors) = Len(evalInput)
    /\ \A i \in 1..Len(evalInput) :
         evaluation[n].errors[i] =
           (IF evalInput[i].success THEN NoError ELSE evalInput[i].error)

\* C15 as amended: the errors list has one slot per failed input result, in
\* input order, holding that result's error field (undefined if the failed
\* result carries no message); successful results have no slot.
C15_SlotPerFailure ==
  \A n \in 1..Len(evaluation) :
    /\ Len(evaluation[n].errors) = Cardinality(Failed(evalInput))
    /\ \A i \in Failed(evalInput) :
         evaluation[n].errors[Rank(evalInput, i)] = evalInput[i].error

\* An evaluation of a successful result followed by a failed one that
\* carries a message.
C15_Witness ==
  /\ Len(evaluation) >= 1 /\ Len(evalInput) = 2
  /\ evalInput[1].success /\ evalInput[1].error = NoError
  /\ ~evalInput[2].success /\ evalInput[2].error # NoError

\* C16: an evaluateExecution call leaves the result list, the registry, the
\* context store and the queue as they are, and returns the same Evaluation
\* Result as the call before it on that list.
C16_Idempotent ==
  [][evaluateExecution =>
       /\ UNCHANGED <<evalInput, agents, contextStore, executionQueue>>
       /\ Len(evaluation) >= 1 =>
            evaluation'[Len(evaluation')] = evaluation[Len(evaluation)]]_vars

\* Two evaluations of a non-empty list have been made.
C16_Witness == Len(evaluation) >= 2 /\ Len(evalInput) >= 1

\* ------------------------------------------------------- createContext
\* The caller's data objects: a mapping of some keys to values.
Keys == {"query", "topic"}
Vals == {"v1", "v2"}
EmptyObject == [k \in {} |-> "v1"]
DataObjects == UNION {[ks -> Vals] : ks \in SUBSET Keys}

\* createContext that keeps only the context made last in the store.
createContextEvicting(ref, parent) ==
  /\ Len(ctxLog) < MaxContexts
  /\ ref \in 1..Len(heap)
  /\ LET context == [id |-> Len(ctxLog) + 1,
                     parentContext |-> parent,
                     data |-> ref,
                     metadata |-> EmptyObject,
                     usage |-> [tokens |-> 0, cost |-> 0, time |-> 0]]
     IN /\ contextStore' = <<[key |-> context.id, value |-> context]>>
        /\ ctxLog' = Append(ctxLog, heap[ref])
  /\ UNCHANGED <<agents, executionQueue, events, calls, regOps, regLog, faults,
                 par, evalInput, evaluation, heap, mutations, server>>

\* createContext(data, parentContext) with the reference `ref` to a caller's
\* object as data (parent = 0: no parent context given).
createContext(ref, parent) ==
  /\ Len(contextStore) < MaxContexts
  /\ ref \in 1..Len(heap)
  /\ LET context == [id |-> Len(contextStore) + 1,
                     parentContext |-> parent,
                     data |-> ref,
                     metadata |-> EmptyObject,
                     usage |-> [tokens |-> 0, cost |-> 0, time |-> 0]]
     IN /\ contextStore' = MapSet(contextStore, context.id, context)
        /\ ctxLog' = Append(ctxLog, heap[ref])
  /\ UNCHANGED <<agents, executionQueue, events, calls, regOps, regLog, faults, par,
                 evalInput, evaluation, heap, mutations, server>>

\* createContext() without data: the default parameter value {} is a new
\* object.
createContextDefault(parent) ==
  /\ Len(contextStore) < MaxContexts
  /\ LET context == [id |-> Len(contextStore) + 1,
                     parentContext |-> parent,
                     data |-> Len(heap) + 1,
                     metadata |-> EmptyObject,
                     usage |-> [tokens |-> 0, cost |-> 0, time |-> 0]]
     IN /\ contextStore' = MapSet(contextStore, context.id, context)
        /\ heap' = Append(heap, EmptyObject)
        /\ ctxLog' = Append(ctxLog, EmptyObject)
  /\ UNCHANGED <<agents, executionQueue, events, calls, regOps, regLog, faults, par,
                 evalInput, evaluation, mutations, server>>

\* getContext(contextId)
getContext(id) == MapGet(contextStore, id)
ContextIds == {contextStore[i].key : i \in 1..Len(contextStore)}
Parents == {0} \cup ContextIds

\* The caller writes data[k] = v on an object it owns.
CallerSets(ref, k, v) ==
  /\ mutations < MaxMutations
  /\ ref \in 1..Len(heap)
  /\ heap' = [heap EXCEPT ![ref] =
                [x \in DOMAIN heap[ref] \cup {k} |->
                   IF x = k THEN v ELSE heap[ref][x]]]
  /\ mutations' = mutations + 1
  /\ UNCHANGED <<agents, executionQueue, events, calls, regOps, regLog, faults, par,
                 evalInput, evaluation, contextStore, ctxLog, server>>

\* The caller runs delete data[k] on an object it owns.
CallerDeletes(ref, k) ==
  /\ mutations < MaxMutations
  /\ ref \in 1..Len(heap)
  /\ k \in DOMAIN heap[ref]
  /\ heap' = [heap EXCEPT ![ref] =
                [x \in DOMAIN heap[ref] \ {k} |-> heap[ref][x]]]
  /\ mutations' = mutations + 1
  /\ UNCHANGED <<agents, executionQueue, events, calls, regOps, regLog, faults, par,
                 evalInput, evaluation, contextStore, ctxLog, server>>

InitCtx ==
  /\ agents = InitAgents
  /\ executionQueue = <<>>
  /\ events = NoEvents
  /\ calls = [c \in Calls |-> IdleCall]
  /\ regOps = 0
  /\ regLog = <<>>
  /\ faults = 0
  /\ par = IdlePar
  /\ evalInput = <<>>
  /\ evaluation = NoEvaluation
  /\ \E o \in DataObjects : heap = <<o>>
  /\ contextStore = <<>>
  /\ ctxLog = <<>>
  /\ mutations = 0
  /\ server = NewServer(NoConfiguration)

NextCtx ==
  \/ \E ref \in 1..(MaxContexts + 1), p \in Parents : createContext(ref, p)
  \/ \E p \in Parents : createContextDefault(p)
  \/ \E ref \in 1..(MaxContexts + 1), k \in Keys, v \in Vals : CallerSets(ref, k, v)
  \/ \E ref \in 1..(MaxContexts + 1), k \in Keys : CallerDeletes(ref, k)

SpecCtx == InitCtx /\ [][NextCtx]_vars

\* C6: the data of every stored context, as getContext returns it, is what
\* was handed to createContext, whatever the caller did to its object since.
C6_CopyOnCreate ==
  \A id \in ContextIds : heap[getContext(id).data] = ctxLog[id]

\* C19: every context made by createContext (ids are handed out in the order
\* of the calls) is in the store under its own id, which no other stored
\* context carries, with usage 0/0/0 and empty metadata.
C19_ContextsKept ==
  /\ \A n \in 1..Len(ctxLog) :
       /\ MapHas(contextStore, n)
       /\ getContext(n).id = n
       /\ getContext(n).usage = [tokens |-> 0, cost |-> 0, time |-> 0]
       /\ getContext(n).metadata = EmptyObject
  /\ \A i, j \in 1..Len(contextStore) :
       i # j => contextStore[i].value.id # contextStore[j].value.id

\* Two contexts were made, the second with the first as its parent, and the
\* caller has written to a data object since.
C19_Witness ==
  /\ Len(ctxLog) = 2 /\ mutations > 0
  /\ MapHas(contextStore, 2) /\ getContext(2).parentContext = 1

\* ======================================================================
\* PromptEngineeringAgent on its own (specification SpecAgent)
\* ======================================================================
PromptIdArgs == 0..MaxPrompts
Configurations ==
  {NoConfiguration} \cup {[historyLimit |-> n] : n \in 1..MaxLimit}
NewConfigurations ==
  {[historyLimit |-> n] : n \in 0..MaxLimit}
    \cup {[historyTracking |-> b] : b \in BOOLEAN}
    \cup {[optimizationStrategy |-> st] : st \in {"minimal", "bogus"}}

OrchestratorUnchanged ==
  UNCHANGED <<agents, executionQueue, calls, regOps, regLog, faults, par,
              evalInput, evaluation, heap, contextStore, ctxLog, mutations>>

\* A caller calls agent.recordResponse(promptId, ...).
CallRecordResponse(promptId) ==
  LET out == recordResponse(server.agent, promptId) IN
  /\ server' = [server EXCEPT !.agent = out.agent, !.threw = out.threw,
                              !.agentOps = @ + 1]
  /\ events' = EmitAll(events, out.emitted)
  /\ OrchestratorUnchanged

\* A caller calls agent.updateConfiguration(newConfiguration).
CallUpdateConfiguration(newConfiguration) ==
  LET out == updateConfiguration(server.agent, newConfiguration) IN
  /\ server' = [server EXCEPT !.agent = out.agent, !.threw = out.threw,
                              !.agentOps = @ + 1]
  /\ events' = EmitAll(events, out.emitted)
  /\ OrchestratorUnchanged

InitAgent ==
  /\ agents = <<>>
  /\ executionQueue = <<>>
  /\ events = NoEvents
  /\ calls = [c \in Calls |-> IdleCall]
  /\ regOps = 0
  /\ regLog = <<>>
  /\ faults = 0
  /\ par = IdlePar
  /\ evalInput = <<>>
  /\ evaluation = NoEvaluation
  /\ heap = <<>>
  /\ contextStore = <<>>
  /\ ctxLog = <<>>
  /\ mutations = 0
  /\ \E config \in Configurations : server = NewServer(config)

NextAgent ==
  \/ \E p \in PromptIdArgs :
       server.agentOps < MaxAgentOps /\ CallRecordResponse(p)
  \/ \E new \in NewConfigurations :
       server.agentOps < MaxAgentOps /\ CallUpdateConfiguration(new)

SpecAgent == InitAgent /\ [][NextAgent]_vars

\* The entries recorded while history tracking was on, in recording order.
RECURSIVE Tracked(_)
Tracked(responses) ==
  IF responses = <<>> THEN <<>>
  ELSE Tracked(SubSeq(responses, 1, Len(responses) - 1))
       \o (IF responses[Len(responses)].tracked
           THEN <<[promptId |-> responses[Len(responses)].promptId,
                   responseId |-> responses[Len(responses)].id]>>
           ELSE <<>>)

\* The history holds the entries recorded last, in recording order.
MostRecent ==
  LET all == Tracked(server.agent.responses)
      n == Len(server.agent.history)
  IN /\ n <= Len(all)
     /\ server.agent.history = SubSeq(all, Len(all) - n + 1, Len(all))

\* C26: with history tracking on and a positive historyLimit, the history
\* never holds more entries than the current historyLimit, and it holds the
\* entries recorded last, in recording order.
C26_HistoryCapped ==
  (/\ server.agent.configuration.historyTracking
   /\ server.agent.configuration.historyLimit > 0) =>
     /\ Len(server.agent.history) <= server.agent.configuration.historyLimit
     /\ MostRecent

\* ======================================================================
\* PromptEngineeringServer (specification SpecServer)
\* ======================================================================
ToolNames == {"addPrompt", "processPrompt", "recordResponse",
              "getPromptMetrics", "optimizePrompt"}
ToolArgs == ToolNames \cup {"deletePrompt"}
Arguments ==
  {Null} \cup {[promptId |-> p, template |-> b] : p \in PromptIdArgs, b \in BOOLEAN}

\* arguments_?.promptId
PromptIdOf(arguments_) ==
  IF arguments_ = Null THEN 0 ELSE arguments_.promptId

\* The switch of callTool: the call on the agent the tool name selects.
Dispatch(agent, toolName, arguments_) ==
  CASE toolName = "addPrompt" -> addPrompt(agent, arguments_)
    [] toolName = "processPrompt" -> processPrompt(agent, PromptIdOf(arguments_))
    [] toolName = "recordResponse" -> recordResponse(agent, PromptIdOf(arguments_))
    [] toolName = "getPromptMetrics" ->
         getPromptMetrics(agent, PromptIdOf(arguments_))
    [] toolName = "optimizePrompt" -> optimizePrompt(agent, PromptIdOf(arguments_))

ServerUnchanged ==
  UNCHANGED <<agents, executionQueue, calls, regOps, regLog, faults, par,
              evalInput, evaluation, heap, contextStore, ctxLog, mutations>>

\* connect()
connect ==
  /\ server' = [server EXCEPT !.isConnected = TRUE, !.switches = @ + 1]
  /\ events' = IF server.isConnected THEN events
               ELSE Emit(events, Ev("connected", "", 0, TRUE))
  /\ ServerUnchanged

\* cleanup()
cleanup ==
  /\ server' = [server EXCEPT !.isConnected = FALSE, !.switches = @ + 1]
  /\ events' = IF ~server.isConnected THEN events
               ELSE Emit(events, Ev("disconnected", "", 0, TRUE))
  /\ ServerUnchanged

\* callTool without the try/catch: an error of the agent escapes.
callToolUncaught(toolName, arguments_) ==
  IF ~server.isConnected
  THEN /\ server' = [server EXCEPT
                       !.returned = [tool |-> toolName, success |-> FALSE,
                                     error |-> "Server not connected",
                                     agentThrew |-> FALSE],
                       !.toolCalls = @ + 1]
       /\ UNCHANGED events
       /\ ServerUnchanged
  ELSE IF toolName \notin ToolNames
  THEN /\ server' = [server EXCEPT
                       !.returned = [tool |-> toolName, success |-> FALSE,
                                     error |-> "Unknown tool",
                                     agentThrew |-> FALSE],
                       !.toolCalls = @ + 1]
       /\ UNCHANGED events
       /\ ServerUnchanged
  ELSE LET out == Dispatch(server.agent, toolName, arguments_) IN
       /\ server' = [server EXCEPT
                       !.agent = out.agent,
                       !.rejected = @ \/ out.threw,
                       !.returned = [tool |-> toolName, success |-> ~out.threw,
                                     error |-> "", agentThrew |-> out.threw],
                       !.toolCalls = @ + 1]
       /\ events' = EmitAll(events, out.emitted)
       /\ ServerUnchanged

\* callTool(toolName, arguments_)
callTool(toolName, arguments_) ==
  IF ~server.isConnected
  THEN /\ server' = [server EXCEPT
                       !.returned = [tool |-> toolName, success |-> FALSE,
                                     error |-> "Server not connected",
                                     agentThrew |-> FALSE],
                       !.toolCalls = @ + 1]
       /\ UNCHANGED events
       /\ ServerUnchanged
  ELSE IF toolName \notin ToolNames
  THEN /\ server' = [server EXCEPT
                       !.returned = [tool |-> toolName, success |-> FALSE,
                                     error |-> "Unknown tool",
                                     agentThrew |-> FALSE],
                       !.toolCalls = @ + 1]
       /\ UNCHANGED events
       /\ ServerUnchanged
  ELSE LET out == Dispatch(server.agent, toolName, arguments_) IN
       /\ server' = [server EXCEPT
                       !.agent = out.agent,
                       !.returned = [tool |-> toolName, success |-> ~out.threw,
                                     error |-> IF out.threw THEN "error.message"
                                               ELSE "",
                                     agentThrew |-> out.threw],
                       !.toolCalls = @ + 1]
       /\ events' = EmitAll(events, out.emitted)
       /\ ServerUnchanged

InitServer ==
  /\ agents = <<>>
  /\ executionQueue = <<>>
  /\ events = NoEvents
  /\ calls = [c \in Calls |-> IdleCall]
  /\ regOps = 0
  /\ regLog = <<>>
  /\ faults = 0
  /\ par = IdlePar
  /\ evalInput = <<>>
  /\ evaluation = NoEvaluation
  /\ heap = <<>>
  /\ contextStore = <<>>
  /\ ctxLog = <<>>
  /\ mutations = 0
  /\ \E b \in BOOLEAN : server = NewServer([performanceMetrics |-> b])

NextServer ==
  \/ server.switches < MaxSwitches /\ connect
  \/ server.switches < MaxSwitches /\ cleanup
  \/ \E t \in ToolArgs, a \in Arguments :
       server.toolCalls < MaxToolCalls /\ callTool(t, a)

SpecServer == InitServer /\ [][NextServer]_vars

\* C30: no callTool call throws; the result of a call with an unknown tool
\* name or in which the agent threw has success=false; 'connected' and
\* 'disconnected' were emitted once per actual change of the connection
\* state; and while the server is not connected no step changes the agent,
\* a callTool call returning the 'Server not connected' failure.
C30_ServerSafe ==
  /\ [](/\ ~server.rejected
        /\ server.returned.tool \notin ToolNames => ~server.returned.success
        /\ server.returned.agentThrew => ~server.returned.success
        /\ Emitted(Ev("connected", "", 0, TRUE))
             - Emitted(Ev("disconnected", "", 0, TRUE))
             = IF server.isConnected THEN 1 ELSE 0)
  /\ [][~server.isConnected =>
          /\ server'.agent = server.agent
          /\ server'.toolCalls # server.toolCalls =>
               (/\ ~server'.returned.success
                /\ server'.returned.error = "Server not connected")]_vars

\* A tool call made while connected added a prompt, the server was then
\* cleaned up, and the tool call made after that was refused.
C30_Witness ==
  /\ ~server.isConnected
  /\ Emitted(Ev("disconnected", "", 0, TRUE)) = 1
  /\ server.agent.prompts # <<>>
  /\ server.returned.error = "Server not connected"

====
